---- MODULE Spec2Model ----
(***************************************************************************)
(* Hospital management system (src/app.py): a Flask application over four  *)
(* SQLite tables (users, doctors, doctor_credentials, appointments) and a  *)
(* cookie session.  Every route handler is an operator from the database   *)
(* and session before the request, and the submitted form, to the database *)
(* and session after it and the HTTP response; one action per route        *)
(* applies it.  Text the code trims is a sequence of characters, so that   *)
(* strip() is computed; text the code stores as submitted is a string.     *)
(***************************************************************************)
EXTENDS Integers, Sequences, FiniteSets, TLC

VARIABLES users, doctors, docSeq, creds, appts, apptSeq, uid, resp

vars == <<users, doctors, docSeq, creds, appts, apptSeq, uid, resp>>

(* ------------------------------ bounds --------------------------------- *)
MaxUsers == 3
MaxDoctorId == 2
MaxAppts == 2

(* ------------------------------ inputs --------------------------------- *)
\* Text is a sequence of characters; the forms the requests submit are drawn
\* from the sets below (one valid form per case, and one with each field empty).
AdminName == <<"a", "d", "m", "i", "n">>
Whitespace == {" "}
Usernames == {<<"a">>, <<" ", "a">>}
Password == <<"p">>
WrongPassword == <<"q">>
DoctorNames == {<<"n">>}
Specialization == <<"s">>
Availabilities == {"Available", "Unavailable"}
Dates == {"", "2024-05-01"}
Statuses == {"Cancelled"}
Findings == {<<<<" ", "x">>, <<>>>>}
Methods == {"GET", "POST"}
DoctorIdInputs == 1..MaxDoctorId
AppointmentIdInputs == 1..MaxAppts

LoginForms ==
  {<<AdminName, AdminName>>, <<<<"a">>, WrongPassword>>, <<<<>>, Password>>}
    \cup {<<u, Password>> : u \in Usernames}

RegisterForms == {<<<<>>, Password>>, <<<<"a">>, <<>>>>} \cup {<<u, Password>> : u \in Usernames}

DoctorForms ==
  {<<<<>>, Specialization>>, <<<<"n">>, <<>>>>} \cup {<<n, Specialization>> : n \in DoctorNames}

EditForms == {<<n, Specialization, a>> : n \in DoctorNames, a \in Availabilities}

AccountForms ==
  {<<<<>>, Specialization, <<"a">>, Password>>, <<<<"n">>, <<>>, <<"a">>, Password>>,
   <<<<"n">>, Specialization, <<>>, Password>>, <<<<"n">>, Specialization, <<"a">>, <<>>>>}
    \cup {<<n, Specialization, u, Password>> : n \in DoctorNames, u \in Usernames}

(* ------------------------------ helpers -------------------------------- *)
\* SQL NULL of a text column: no text the forms can submit
Null == <<"NULL">>

RECURSIVE lstrip(_)
lstrip(t) == IF t # <<>> /\ Head(t) \in Whitespace THEN lstrip(Tail(t)) ELSE t

RECURSIVE rstrip(_)
rstrip(t) ==
  IF t # <<>> /\ t[Len(t)] \in Whitespace THEN rstrip(SubSeq(t, 1, Len(t) - 1)) ELSE t

\* str.strip(): leading and trailing whitespace removed
strip(t) == rstrip(lstrip(t))

\* hash_pwd: sha256 hex digest, modelled as an injective tagging of the text
hash_pwd(p) == <<"sha256">> \o p

SetMax(S) == IF S = {} THEN 0 ELSE CHOOSE m \in S : \A x \in S : x <= m

SetMin(S) == CHOOSE m \in S : \A x \in S : m <= x

\* rowid an AUTOINCREMENT table gives a row inserted without an id
NextRowId(ids, seq) == SetMax(ids \cup {seq}) + 1

\* the database and the session, as one value the handlers transform
State ==
  [users |-> users, doctors |-> doctors, docSeq |-> docSeq, creds |-> creds,
   appts |-> appts, apptSeq |-> apptSeq, uid |-> uid]

Usernamed(s) == {s.users[i].username : i \in 1..Len(s.users)}

DoctorIds(s) == {d.id : d \in s.doctors}

(* ----------------------------- responses ------------------------------- *)
\* a response: the status code, the Location of a redirect, and the error text
\* a template is rendered with ("" for err=None) or the body of a 403/404
Render(view, err) == [code |-> 200, location |-> "", err |-> err]

Redirect(to) == [code |-> 302, location |-> to, err |-> ""]

Forbidden == [code |-> 403, location |-> "", err |-> "Forbidden"]

NotFound(what) == [code |-> 404, location |-> "", err |-> what]

Out(s, r) == [st |-> s, resp |-> r]

(* --------------------------- authentication ---------------------------- *)
\* current_user: the users row of the session's uid, 0 when there is none
current_user(s) ==
  IF s.uid = 0 THEN 0
  ELSE IF s.uid \in 1..Len(s.users) THEN s.uid ELSE 0

RoleOf(s) == s.users[current_user(s)].role

\* login_required, then the handler's own role test
Gate(s, role, body) ==
  IF current_user(s) = 0 THEN Out(s, Redirect("/login"))
  ELSE IF RoleOf(s) # role THEN Out(s, Forbidden)
  ELSE body

(* ------------------------------- routes -------------------------------- *)
index(s) ==
  IF current_user(s) = 0 THEN Out(s, Redirect("/login"))
  ELSE IF RoleOf(s) = "admin" THEN Out(s, Redirect("/admin"))
  ELSE IF RoleOf(s) = "doctor" THEN Out(s, Redirect("/doctor"))
  ELSE Out(s, Redirect("/patient"))

\* login that looks the username up first and says so when it is unknown
login_enumerating(s, method, u, p) ==
  IF method = "POST" THEN
    IF u = <<>> \/ p = <<>>
    THEN Out(s, Render("login.html", "Username and password required"))
    ELSE LET named == {i \in 1..Len(s.users) : s.users[i].username = u}
             rows == {i \in named : s.users[i].password = hash_pwd(p)}
         IN IF named = {} THEN Out(s, Render("login.html", "Unknown username"))
            ELSE IF rows # {}
            THEN Out([s EXCEPT !.uid = SetMin(rows)], Redirect("/"))
            ELSE Out(s, Render("login.html", "Invalid credentials"))
  ELSE Out(s, Render("login.html", ""))

login(s, method, u, p) ==
  IF method = "POST" THEN
    IF u = <<>> \/ p = <<>>
    THEN Out(s, Render("login.html", "Username and password required"))
    ELSE LET rows == {i \in 1..Len(s.users) :
                        s.users[i].username = u /\ s.users[i].password = hash_pwd(p)}
         IN IF rows # {}
            THEN Out([s EXCEPT !.uid = SetMin(rows)], Redirect("/"))
            ELSE Out(s, Render("login.html", "Invalid credentials"))
  ELSE Out(s, Render("login.html", ""))

\* a users table without the UNIQUE(username) constraint
UserInsertUnconstrained(s, u) == FALSE

\* INSERT INTO users: the UNIQUE(username) constraint decides
UserInsertFails(s, u) == u \in Usernamed(s)

InsertUser(s, u, p, role) ==
  [s EXCEPT !.users = Append(@, [username |-> u, password |-> hash_pwd(p), role |-> role])]

register(s, method, u, p) ==
  IF method = "POST" THEN
    IF u = <<>> \/ p = <<>>
    THEN Out(s, Render("register.html", "Username and password required"))
    ELSE IF UserInsertFails(s, u)
         THEN Out(s, Render("register.html", "Username taken"))
         ELSE Out(InsertUser(s, u, p, "patient"), Redirect("/login"))
  ELSE Out(s, Render("register.html", ""))

logout(s) == Out([s EXCEPT !.uid = 0], Redirect("/login"))

(* ---------------------------- admin routes ----------------------------- *)
\* INSERT INTO doctors(name, specialization, availability) without an id
InsertDoctor(s, name, spec) ==
  LET id == NextRowId(DoctorIds(s), s.docSeq)
  IN [s EXCEPT !.doctors = @ \cup {[id |-> id, name |-> name, specialization |-> spec,
                                     availability |-> "Available"]},
               !.docSeq = id]

\* POST /admin adds a doctor when the form holds name and spec (a form the
\* actions submit holds both) and neither is blank
admin(s, method, name, spec) ==
  Gate(s, "admin",
    IF method = "POST" /\ strip(name) # <<>> /\ strip(spec) # <<>>
    THEN Out(InsertDoctor(s, strip(name), strip(spec)), Render("admin_dashboard.html", ""))
    ELSE Out(s, Render("admin_dashboard.html", "")))

edit_doctor(s, method, did, name, spec, avail) ==
  Gate(s, "admin",
    IF did \notin DoctorIds(s) THEN Out(s, NotFound("Doctor not found"))
    ELSE IF method = "POST"
    THEN Out([s EXCEPT !.doctors =
                {IF d.id = did
                 THEN [d EXCEPT !.name = strip(name), !.specialization = strip(spec),
                                !.availability = avail]
                 ELSE d : d \in @}],
             Redirect("/admin"))
    ELSE Out(s, Render("edit_doctor.html", "")))

\* delete_doctor without the role test: any logged-in user may delete
delete_doctor_any_role(s, did) ==
  IF current_user(s) = 0 THEN Out(s, Redirect("/login"))
  ELSE Out([s EXCEPT !.appts = {a \in @ : a.doctor_id # did},
                     !.doctors = {d \in @ : d.id # did}],
           Redirect("/admin"))

\* delete_doctor without the delete of the doctor's appointments
delete_doctor_no_cascade(s, did) ==
  Gate(s, "admin",
    Out([s EXCEPT !.doctors = {d \in @ : d.id # did}], Redirect("/admin")))

\* delete_doctor whose appointment delete has lost its WHERE clause
delete_doctor_all_appointments(s, did) ==
  Gate(s, "admin",
    Out([s EXCEPT !.appts = {}, !.doctors = {d \in @ : d.id # did}], Redirect("/admin")))

delete_doctor(s, did) ==
  Gate(s, "admin",
    Out([s EXCEPT !.appts = {a \in @ : a.doctor_id # did},
                  !.doctors = {d \in @ : d.id # did}],
        Redirect("/admin")))

admin_update_appointment(s, aid, status) ==
  Gate(s, "admin",
    Out([s EXCEPT !.appts = {IF a.id = aid THEN [a EXCEPT !.status = status] ELSE a : a \in @}],
        Redirect("/admin")))

admin_delete_appointment(s, aid) ==
  Gate(s, "admin",
    Out([s EXCEPT !.appts = {a \in @ : a.id # aid}], Redirect("/admin")))

\* SELECT id FROM doctors WHERE name=? AND specialization=?, fetchone(): the
\* table is scanned in rowid order, so the first row is the one of least id
DoctorByNameSpec(s, name, spec) ==
  SetMin({d.id : d \in {e \in s.doctors : e.name = name /\ e.specialization = spec}})

CredInsertFails(s, u) == u \in {s.creds[i].username : i \in 1..Len(s.creds)}

add_doctor(s, method, name, spec, doc_user, doc_pass) ==
  Gate(s, "admin",
    IF method = "POST" THEN
      IF strip(name) = <<>> \/ strip(spec) = <<>> \/ strip(doc_user) = <<>>
           \/ strip(doc_pass) = <<>>
      THEN Out(s, Render("add_doctor.html", "All fields required"))
      ELSE LET s1 == InsertDoctor(s, strip(name), strip(spec))
               doctor_id == DoctorByNameSpec(s1, strip(name), strip(spec))
               s2 == [s1 EXCEPT !.creds = Append(@, [doctor_id |-> doctor_id,
                                                     username |-> strip(doc_user),
                                                     password |-> hash_pwd(strip(doc_pass))])]
           IN \* the doctors row is committed; the two inserts after it are one
              \* transaction, rolled back when the connection closes on the error
              IF CredInsertFails(s1, strip(doc_user)) \/ UserInsertFails(s2, strip(doc_user))
              THEN Out(s1, Render("add_doctor.html", "Username already exists"))
              ELSE Out(InsertUser(s2, strip(doc_user), strip(doc_pass), "doctor"),
                       Render("add_doctor.html", ""))
    ELSE Out(s, Render("add_doctor.html", "")))

(* ---------------------------- patient route ---------------------------- *)
InsertAppointment(s, patient_id, doctor_id, date) ==
  LET id == NextRowId({a.id : a \in s.appts}, s.apptSeq)
  IN [s EXCEPT !.appts = @ \cup {[id |-> id, patient_id |-> patient_id,
                                   doctor_id |-> doctor_id, date |-> date,
                                   status |-> "Booked", diagnosis |-> Null,
                                   notes |-> Null]},
               !.apptSeq = id]

\* patient that books any doctor that exists, whatever its availability
patient_any_availability(s, method, doc_id, date) ==
  Gate(s, "patient",
    IF method = "POST" /\ (\E d \in s.doctors : d.id = doc_id) /\ date # ""
    THEN Out(InsertAppointment(s, current_user(s), doc_id, date),
             Render("patient_dashboard.html", ""))
    ELSE Out(s, Render("patient_dashboard.html", "")))

\* doc_id is the doctor id the form names (a number, as the page's select
\* submits); date is stored as submitted
patient(s, method, doc_id, date) ==
  Gate(s, "patient",
    IF method = "POST"
       /\ \E d \in s.doctors : d.id = doc_id /\ d.availability = "Available"
       /\ date # ""
    THEN Out(InsertAppointment(s, current_user(s), doc_id, date),
             Render("patient_dashboard.html", ""))
    ELSE Out(s, Render("patient_dashboard.html", "")))

(* ---------------------------- doctor routes ---------------------------- *)
doctor(s, method, appointment_id, diagnosis, notes) ==
  Gate(s, "doctor",
    IF method = "POST"
    THEN Out([s EXCEPT !.appts =
                {IF a.id = appointment_id /\ a.doctor_id = current_user(s)
                 THEN [a EXCEPT !.diagnosis = strip(diagnosis), !.notes = strip(notes)]
                 ELSE a : a \in @}],
             Render("doctor_dashboard.html", ""))
    ELSE Out(s, Render("doctor_dashboard.html", "")))

doc_done(s, method, aid, diagnosis, notes) ==
  Gate(s, "doctor",
    IF method = "POST"
    THEN Out([s EXCEPT !.appts =
                {IF a.id = aid /\ a.doctor_id = current_user(s)
                 THEN [a EXCEPT !.status = "Completed", !.diagnosis = strip(diagnosis),
                                !.notes = strip(notes)]
                 ELSE a : a \in @}],
             Redirect("/doctor"))
    ELSE IF \E a \in s.appts : a.id = aid /\ a.doctor_id = current_user(s)
    THEN Out(s, Render("doctor_mark_complete.html", ""))
    ELSE Out(s, NotFound("Appointment not found")))

(* ----------------------- doctor self-registration ---------------------- *)
\* INSERT INTO doctors(id, ...) with the id given: the PRIMARY KEY decides
DoctorInsertFails(s, id) == id \in DoctorIds(s)

InsertDoctorWithId(s, id, name, spec) ==
  [s EXCEPT !.doctors = @ \cup {[id |-> id, name |-> name, specialization |-> spec,
                                  availability |-> "Available"]},
            !.docSeq = IF id > @ THEN id ELSE @]

register_doctor(s, method, u, p, name, spec) ==
  IF method = "POST" THEN
    IF u = <<>> \/ p = <<>> \/ name = <<>> \/ spec = <<>>
    THEN Out(s, Render("register_doctor.html", "All fields required"))
    ELSE IF UserInsertFails(s, u)
    THEN Out(s, Render("register_doctor.html", "Username taken"))
    ELSE LET s1 == InsertUser(s, u, p, "doctor")
             user_id == SetMin({i \in 1..Len(s1.users) : s1.users[i].username = u})
         IN \* the users row is committed before the doctors row is tried
            IF DoctorInsertFails(s1, user_id)
            THEN Out(s1, Render("register_doctor.html", "Username taken"))
            ELSE Out(InsertDoctorWithId(s1, user_id, name, spec), Redirect("/login"))
  ELSE Out(s, Render("register_doctor.html", ""))

(* ------------------------------ actions -------------------------------- *)
Init ==
  /\ users = <<[username |-> AdminName, password |-> hash_pwd(AdminName), role |-> "admin"]>>
  /\ doctors = {}
  /\ docSeq = 0
  /\ creds = <<>>
  /\ appts = {}
  /\ apptSeq = 0
  /\ uid = 0
  /\ resp = Render("", "")

WithinBounds(s) ==
  /\ Len(s.users) <= MaxUsers
  /\ s.docSeq <= MaxDoctorId
  /\ s.apptSeq <= MaxAppts

Apply(o) ==
  /\ WithinBounds(o.st)
  /\ users' = o.st.users
  /\ doctors' = o.st.doctors
  /\ docSeq' = o.st.docSeq
  /\ creds' = o.st.creds
  /\ appts' = o.st.appts
  /\ apptSeq' = o.st.apptSeq
  /\ uid' = o.st.uid
  /\ resp' = o.resp

Index == Apply(index(State))

\* a GET carries no form: the handlers read none of its fields
Requests(forms) == {<<"GET", CHOOSE f \in forms : TRUE>>} \cup {<<"POST", f>> : f \in forms}

Login == \E r \in Requests(LoginForms) : Apply(login(State, r[1], r[2][1], r[2][2]))

Register == \E r \in Requests(RegisterForms) : Apply(register(State, r[1], r[2][1], r[2][2]))

Logout == Apply(logout(State))

Admin == \E r \in Requests(DoctorForms) : Apply(admin(State, r[1], r[2][1], r[2][2]))

EditDoctor == \E did \in DoctorIdInputs, r \in Requests(EditForms) :
  Apply(edit_doctor(State, r[1], did, r[2][1], r[2][2], r[2][3]))

DeleteDoctor == \E did \in DoctorIdInputs : Apply(delete_doctor(State, did))

AdminUpdateAppointment == \E aid \in AppointmentIdInputs, status \in Statuses :
  Apply(admin_update_appointment(State, aid, status))

AdminDeleteAppointment == \E aid \in AppointmentIdInputs :
  Apply(admin_delete_appointment(State, aid))

AddDoctor == \E r \in Requests(AccountForms) :
  Apply(add_doctor(State, r[1], r[2][1], r[2][2], r[2][3], r[2][4]))

Patient == \E r \in Requests(DoctorIdInputs \X Dates) :
  Apply(patient(State, r[1], r[2][1], r[2][2]))

Doctor == \E r \in Requests(AppointmentIdInputs \X Findings) :
  Apply(doctor(State, r[1], r[2][1], r[2][2][1], r[2][2][2]))

DocDone == \E r \in Requests(AppointmentIdInputs \X Findings) :
  Apply(doc_done(State, r[1], r[2][1], r[2][2][1], r[2][2][2]))

RegisterDoctor == \E r \in Requests(AccountForms) :
  Apply(register_doctor(State, r[1], r[2][3], r[2][4], r[2][1], r[2][2]))

Next ==
  \/ Index
  \/ Login
  \/ Register
  \/ Logout
  \/ Admin
  \/ EditDoctor
  \/ DeleteDoctor
  \/ AdminUpdateAppointment
  \/ AdminDeleteAppointment
  \/ AddDoctor
  \/ Patient
  \/ Doctor
  \/ DocDone
  \/ RegisterDoctor

Spec == Init /\ [][Next]_vars

(* ------------------------- inputs of the claims ------------------------ *)
\* what the claims quantify over: every form above, and texts no request of
\* the actions submits (an unknown username, blank text, padded text)
AnyUsernames == Usernames \cup {<<>>, <<" ">>, <<"b">>, <<"a", " ">>, AdminName}
AnyPasswords == {<<>>, Password, WrongPassword, AdminName, <<" ", "p">>}
AnyDoctorIds == 0..(MaxDoctorId + 1)
AnyDates == Dates \cup {" "}
AnyFindings == Findings \cup {<<<<>>, <<>>>>, <<<<"x">>, <<" ">>>>}

Tables(s) == <<s.users, s.doctors, s.creds, s.appts>>

LoggedIn == current_user(State) # 0

Role == IF LoggedIn THEN RoleOf(State) ELSE "none"

(* -------------------------------- C1 ----------------------------------- *)
\* what each role-scoped route answers to each request, with the role it asks for
GatedOuts(s) ==
  {<<"admin", admin(s, m, f[1], f[2])>> : m \in Methods, f \in DoctorForms}
    \cup {<<"admin", edit_doctor(s, m, did, f[1], f[2], f[3])>> :
            m \in Methods, did \in DoctorIdInputs, f \in EditForms}
    \cup {<<"admin", delete_doctor(s, did)>> : did \in DoctorIdInputs}
    \cup {<<"admin", admin_update_appointment(s, aid, st)>> :
            aid \in AppointmentIdInputs, st \in Statuses}
    \cup {<<"admin", admin_delete_appointment(s, aid)>> : aid \in AppointmentIdInputs}
    \cup {<<"admin", add_doctor(s, m, f[1], f[2], f[3], f[4])>> :
            m \in Methods, f \in AccountForms}
    \cup {<<"patient", patient(s, m, did, date)>> :
            m \in Methods, did \in DoctorIdInputs, date \in Dates}
    \cup {<<"doctor", doctor(s, m, aid, f[1], f[2])>> :
            m \in Methods, aid \in AppointmentIdInputs, f \in Findings}
    \cup {<<"doctor", doc_done(s, m, aid, f[1], f[2])>> :
            m \in Methods, aid \in AppointmentIdInputs, f \in Findings}

\* C1: in every reachable state, every role-scoped route answers a request
\* without a session identity with a redirect to /login, and a request whose
\* identity has another role than the route's with 403 Forbidden; either way
\* users, doctors, doctor_credentials and appointments are left as they were.
C1_RoleGate ==
  \A g \in GatedOuts(State) :
    /\ ~LoggedIn => g[2].resp = Redirect("/login") /\ Tables(g[2].st) = Tables(State)
    /\ (LoggedIn /\ Role # g[1]) => g[2].resp = Forbidden /\ Tables(g[2].st) = Tables(State)

\* a patient has just been refused a route, with doctors and appointments to lose
C1_Witness ==
  /\ resp = Forbidden
  /\ Role = "patient"
  /\ doctors # {}
  /\ appts # {}

(* -------------------------------- C3 ----------------------------------- *)
Bookable(s, doc_id, date) ==
  /\ \E d \in s.doctors : d.id = doc_id /\ d.availability = "Available"
  /\ date # ""

\* C3: a POST /patient by a logged-in patient P with doctor id D and date X
\* inserts exactly one appointment (patient_id=P, doctor_id=D, date=X,
\* status="Booked") iff a doctor D exists, its availability is exactly
\* "Available" and X is not empty; otherwise no row is created and the rows
\* there are stay as they are.
C3_Booking ==
  Role = "patient" =>
    \A doc_id \in AnyDoctorIds, date \in AnyDates :
      LET after == patient(State, "POST", doc_id, date).st.appts
          new == after \ appts
      IN /\ appts \subseteq after
         /\ Bookable(State, doc_id, date) =>
              /\ Cardinality(new) = 1
              /\ \A a \in new :
                   /\ a.patient_id = uid /\ a.doctor_id = doc_id /\ a.date = date
                   /\ a.status = "Booked"
                   /\ a.id \notin {b.id : b \in appts}
         /\ ~Bookable(State, doc_id, date) => new = {}

\* a patient has booked, and a doctor that is not "Available" is there to refuse
C3_Witness ==
  /\ Role = "patient"
  /\ resp = Render("patient_dashboard.html", "")
  /\ \E a \in appts : a.patient_id = uid /\ a.status = "Booked" /\ a.id = apptSeq
  /\ \E d \in doctors : d.availability # "Available"

(* -------------------------------- C4 ----------------------------------- *)
\* C4: in every reachable state every appointment's patient_id is the id of a
\* users row and its doctor_id the id of a doctors row.
C4_ReferentialIntegrity ==
  \A a \in appts :
    /\ a.patient_id \in 1..Len(users)
    /\ a.doctor_id \in DoctorIds(State)

\* the admin has added two doctors (no doctor has registered, so both ids came
\* from the sequence), both were booked, one has been deleted since and the
\* appointment of the other is still there
C4_Witness ==
  /\ \A i \in 1..Len(users) : users[i].role # "doctor"
  /\ docSeq = 2 /\ Cardinality(doctors) = 1
  /\ apptSeq = 2 /\ Cardinality(appts) = 1
  /\ resp = Redirect("/admin")

(* -------------------------------- C5 ----------------------------------- *)
\* C5: when an admin deletes doctor D that has N appointments, there are
\* exactly N fewer appointments afterwards (those of D are gone, the others
\* unchanged), no doctor D, and every other doctors row unchanged.
C5_DeleteCascade ==
  Role = "admin" =>
    \A did \in AnyDoctorIds :
      LET o == delete_doctor(State, did)
          mine == {a \in appts : a.doctor_id = did}
      IN /\ o.st.appts = appts \ mine
         /\ Cardinality(o.st.appts) = Cardinality(appts) - Cardinality(mine)
         /\ did \notin DoctorIds(o.st)
         /\ o.st.doctors = {d \in doctors : d.id # did}

\* the admin is logged in, one doctor has an appointment to lose and another
\* doctor has one to keep
C5_Witness ==
  /\ Role = "admin"
  /\ \E a, b \in appts : a.doctor_id # b.doctor_id
  /\ \E did \in DoctorIds(State) :
       Cardinality(delete_doctor(State, did).st.appts) = Cardinality(appts) - 1

(* -------------------------------- C6 ----------------------------------- *)
DuplicateErrors == {"Username taken", "Username already exists"}

Refused(o) == o.resp.err \in DuplicateErrors /\ o.st.users = users

UsernamesUnique ==
  \A i, j \in 1..Len(users) : users[i].username = users[j].username => i = j

\* C6 as stated: in each of the three registration flows an attempt whose
\* submitted username is already in users fails with the duplicate-username
\* error and leaves users as it was.
C6_AsStated ==
  \A u \in AnyUsernames \cap Usernamed(State) :
    /\ Refused(register(State, "POST", u, Password))
    /\ Refused(register_doctor(State, "POST", u, Password, <<"n">>, Specialization))
    /\ Role = "admin" =>
         Refused(add_doctor(State, "POST", <<"n">>, Specialization, u, Password))

\* C6, amended: the same, where the username of an admin provisioning is the
\* submitted one with leading and trailing whitespace removed (the text that
\* flow stores); and usernames are unique in users in every reachable state.
C6_DuplicateUsername ==
  /\ \A u \in AnyUsernames \cap Usernamed(State), p \in AnyPasswords \ {<<>>} :
       /\ Refused(register(State, "POST", u, p))
       /\ Refused(register_doctor(State, "POST", u, p, <<"n">>, Specialization))
  /\ Role = "admin" =>
       \A u \in AnyUsernames, p \in AnyPasswords :
         (strip(u) \in Usernamed(State) /\ strip(p) # <<>>) =>
           Refused(add_doctor(State, "POST", <<"n">>, Specialization, u, p))
  /\ UsernamesUnique

\* an admin provisioning has just been refused for its username
C6_Witness ==
  /\ resp = Render("add_doctor.html", "Username already exists")
  /\ Role = "admin"
  /\ Len(users) > 1

(* -------------------------------- C10 ---------------------------------- *)
Matches(u, p) ==
  \E i \in 1..Len(users) : users[i].username = u /\ users[i].password = hash_pwd(p)

\* C10: a login with a username that exists and a password that is not its
\* own, and a login with a username that does not exist, get the same
\* response, "Invalid credentials" (the missing-field error when the password
\* is empty), and leave the session's uid as it was; the uid becomes that of
\* a users row only when that row has both the username and the password's hash.
C10_LoginNonEnumeration ==
  /\ \A u1 \in AnyUsernames \cap Usernamed(State), u2 \in AnyUsernames \ Usernamed(State),
        p \in AnyPasswords :
       (u2 # <<>> /\ ~Matches(u1, p)) =>
         /\ login(State, "POST", u1, p) = login(State, "POST", u2, p)
         /\ login(State, "POST", u1, p).st = State
         /\ p # <<>> => login(State, "POST", u1, p).resp.err = "Invalid credentials"
  /\ \A u \in AnyUsernames, p \in AnyPasswords :
       LET o == login(State, "POST", u, p)
       IN \/ o.st = State /\ o.resp.code = 200
          \/ /\ o.st = [State EXCEPT !.uid = o.st.uid]
             /\ o.st.uid \in 1..Len(users)
             /\ users[o.st.uid].username = u
             /\ users[o.st.uid].password = hash_pwd(p)

\* a login has just failed with the generic error while a session of a
\* registered user was open, and that session is still open
C10_Witness ==
  /\ resp = Render("login.html", "Invalid credentials")
  /\ LoggedIn
  /\ Len(users) > 1

(* -------------------------------- C2 ----------------------------------- *)
\* the caller's own doctors row: the one the doctor_credentials row with the
\* caller's username refers to when the admin provisioned the account, and
\* the one with the caller's id when the doctor registered
OwnDoctorId(s) ==
  LET mine == {i \in 1..Len(s.creds) :
                 s.creds[i].username = s.users[current_user(s)].username}
  IN IF mine # {} THEN s.creds[SetMin(mine)].doctor_id ELSE current_user(s)

\* C2: when a logged-in doctor submits POST /doctor or POST /doctor/done/<A>
\* for an appointment A whose doctor_id is not the caller's own doctors row,
\* no appointment changes and no error is raised.
C2_ForeignAppointmentUntouched ==
  Role = "doctor" =>
    \A a \in appts, f \in AnyFindings :
      a.doctor_id # OwnDoctorId(State) =>
        /\ doctor(State, "POST", a.id, f[1], f[2]).st.appts = appts
        /\ doctor(State, "POST", a.id, f[1], f[2]).resp.code < 400
        /\ doc_done(State, "POST", a.id, f[1], f[2]).st.appts = appts
        /\ doc_done(State, "POST", a.id, f[1], f[2]).resp.code < 400

(* -------------------------------- C7 ----------------------------------- *)
\* C7: after a POST /admin/add_doctor with all four fields non-empty, either
\* a new doctors row, a doctor_credentials row whose doctor_id is the id of
\* that new row, and a users row (role doctor) with the submitted username
\* have been created together, or an error is reported and no users row has
\* been created without them.
C7_ProvisioningTogether ==
  Role = "admin" =>
    \A u \in AnyUsernames, p \in AnyPasswords :
      (strip(u) # <<>> /\ strip(p) # <<>>) =>
        LET o == add_doctor(State, "POST", <<"n">>, Specialization, u, p)
            newDoctors == o.st.doctors \ doctors
        IN \/ /\ o.resp.err = ""
              /\ Cardinality(newDoctors) = 1
              /\ Len(o.st.creds) = Len(creds) + 1
              /\ Len(o.st.users) = Len(users) + 1
              /\ \A d \in newDoctors : o.st.creds[Len(o.st.creds)].doctor_id = d.id
              /\ o.st.creds[Len(o.st.creds)].username = strip(u)
              /\ o.st.users[Len(o.st.users)].username = strip(u)
              /\ o.st.users[Len(o.st.users)].role = "doctor"
           \/ /\ o.resp.err # ""
              /\ o.st.users = users
              /\ o.st.creds = creds

(* -------------------------------- C8 ----------------------------------- *)
\* C8: in every reachable state a POST /register_doctor with all fields
\* non-empty and a username not yet in users succeeds and creates exactly one
\* users row (role doctor) and exactly one doctors row, whose id is the new
\* user's id, with the submitted name and specialization and availability
\* "Available".
C8_SelfRegistration ==
  \A u \in AnyUsernames \ Usernamed(State), p \in AnyPasswords :
    (u # <<>> /\ p # <<>>) =>
      LET o == register_doctor(State, "POST", u, p, <<"n">>, Specialization)
      IN /\ o.resp = Redirect("/login")
         /\ o.st.users = Append(users, [username |-> u, password |-> hash_pwd(p),
                                        role |-> "doctor"])
         /\ o.st.doctors \ doctors =
              {[id |-> Len(users) + 1, name |-> <<"n">>, specialization |-> Specialization,
                availability |-> "Available"]}
         /\ doctors \subseteq o.st.doctors

(* -------------------------------- C9 ----------------------------------- *)
\* C9: when a doctor submits POST /doctor/done/<A> for an appointment A of
\* their own doctors row, A's status is "Completed" afterwards and its
\* diagnosis and notes are the submitted texts, character for character,
\* whatever A's status was; no other appointment changes.
C9_MarkComplete ==
  Role = "doctor" =>
    \A a \in appts, f \in AnyFindings :
      a.doctor_id = OwnDoctorId(State) =>
        doc_done(State, "POST", a.id, f[1], f[2]).st.appts =
          (appts \ {a}) \cup {[a EXCEPT !.status = "Completed", !.diagnosis = f[1],
                                        !.notes = f[2]]}

\* C9, the two ways it fails told apart: the texts are stored as submitted
\* whenever the appointment is updated at all
C9_StoredVerbatim ==
  Role = "doctor" =>
    \A a \in appts, f \in AnyFindings :
      \A b \in doc_done(State, "POST", a.id, f[1], f[2]).st.appts \ appts :
        b.diagnosis = f[1] /\ b.notes = f[2]

\* and an appointment of the caller's own doctors row is marked complete
C9_OwnCompleted ==
  Role = "doctor" =>
    \A a \in appts, f \in AnyFindings :
      a.doctor_id = OwnDoctorId(State) =>
        \E b \in doc_done(State, "POST", a.id, f[1], f[2]).st.appts :
          b.id = a.id /\ b.status = "Completed"

====
